---- MODULE Spec2Model ----
(***************************************************************************)
(* A model of supertask's persistent key-value store (src/src/store.rs):   *)
(* the Database (a BTreeMap<String, Vec<u8>> with bincode load/save) and   *)
(* the Store handle that guards it with one RwLock and saves the whole     *)
(* map after every mutation.                                               *)
(*                                                                         *)
(* Bytes are naturals below 256.  A text string is the sequence of its     *)
(* (ASCII) bytes.  bincode's default configuration is modelled as it       *)
(* encodes: fixed-width little-endian u64 lengths, no framing for structs, *)
(* maps as a length followed by the entries in iteration (sorted) order,   *)
(* and trailing bytes accepted by deserialize.                             *)
(***************************************************************************)
EXTENDS Naturals, Sequences, FiniteSets, TLC

(***************************************************************************)
(* Bounds of the model.                                                    *)
(***************************************************************************)
\* Number of client threads sharing one Store.
NumThreads == 2
\* Longest text value a client writes.
MaxStrLen == 1

Threads == 1..NumThreads

(***************************************************************************)
(* Keys and values the clients use.                                        *)
(***************************************************************************)
\* "a" and "b"
Keys == { <<97>>, <<98>> }

\* The key that thread t alone writes in SpecDisjoint: "a", "b", ...
DisjointKey(t) == <<96 + t>>

\* Every key of the model.
AllKeys == Keys \cup { DisjointKey(t) : t \in Threads }

\* The non-empty strings of 'x' up to MaxStrLen.
Strings == { [i \in 1..n |-> 120] : n \in 1..MaxStrLen }

\* A typed value: ty is the Rust type, v its content (a u8 is the one-byte
\* sequence of its number).  "Opaque" stands for a type whose Serialize
\* implementation reports an error.
StringVal(s) == [ty |-> "String", v |-> s]
U8Val(n) == [ty |-> "u8", v |-> <<n>>]
OpaqueVal == [ty |-> "Opaque", v |-> <<>>]

Values == { StringVal(s) : s \in Strings } \cup { U8Val(7), OpaqueVal }
ReadTypes == { "String", "u8" }

(***************************************************************************)
(* bincode                                                                 *)
(***************************************************************************)
\* Width of a u64 in bincode's fixed-int encoding.
U64Width == 8
\* The model's integers are 32 bits wide: a u64 is decoded exactly when it
\* is below 2^24 and as Huge (more than any length in the model) otherwise.
Huge == 16777216

U64LE(n) ==
  [i \in 1..U64Width |->
     IF i = 1 THEN n % 256
     ELSE IF i = 2 THEN (n \div 256) % 256
     ELSE IF i = 3 THEN (n \div 65536) % 256
     ELSE 0]

\* The u64 at bytes pos .. pos+7 of b (the caller has checked they exist).
ReadU64(b, pos) ==
  IF \E i \in 3..(U64Width - 1) : b[pos + i] # 0
  THEN Huge
  ELSE b[pos] + 256 * b[pos + 1] + 65536 * b[pos + 2]

\* String::from_utf8 on the byte strings of the model: ASCII only.
ValidUtf8(s) == \A i \in 1..Len(s) : s[i] < 128

\* A length-prefixed byte string (String and Vec<u8> encode alike).
SerializeBytes(s) == U64LE(Len(s)) \o s

\* bincode::serialize(&value)
SerializeValue(val) ==
  IF val.ty = "String" THEN [ok |-> TRUE, bytes |-> SerializeBytes(val.v)]
  ELSE IF val.ty = "u8" THEN [ok |-> TRUE, bytes |-> val.v]
  ELSE [ok |-> FALSE, bytes |-> <<>>]

\* Reads a length-prefixed byte string at pos: [ok, s, next].
ReadBytes(b, pos) ==
  IF pos + U64Width - 1 > Len(b)
  THEN [ok |-> FALSE, s |-> <<>>, next |-> pos]
  ELSE LET n == ReadU64(b, pos)
           from == pos + U64Width
       IN IF from + n - 1 > Len(b)
          THEN [ok |-> FALSE, s |-> <<>>, next |-> pos]
          ELSE [ok |-> TRUE, s |-> SubSeq(b, from, from + n - 1), next |-> from + n]

\* bincode::deserialize::<T>(bytes) for T = ty
DeserializeValue(ty, b) ==
  IF ty = "String"
  THEN LET r == ReadBytes(b, 1)
       IN IF r.ok /\ ValidUtf8(r.s)
          THEN [ok |-> TRUE, val |-> StringVal(r.s)]
          ELSE [ok |-> FALSE, val |-> OpaqueVal]
  ELSE IF ty = "u8"
  THEN IF Len(b) >= 1
       THEN [ok |-> TRUE, val |-> U8Val(b[1])]
       ELSE [ok |-> FALSE, val |-> OpaqueVal]
  ELSE [ok |-> FALSE, val |-> OpaqueVal]

(***************************************************************************)
(* BTreeMap<String, Vec<u8>>: a function from a finite set of keys.        *)
(***************************************************************************)
EmptyMap == [k \in {} |-> <<>>]

\* BTreeMap::insert that leaves an existing entry as it is.
MapInsertKeep(m, k, b) ==
  IF k \in DOMAIN m THEN m ELSE [x \in (DOMAIN m) \cup {k} |-> IF x = k THEN b ELSE m[x]]

MapInsert(m, k, b) == [x \in (DOMAIN m) \cup {k} |-> IF x = k THEN b ELSE m[x]]

\* BTreeMap::remove that removes nothing.
MapRemoveNothing(m, k) == m

MapRemove(m, k) == [x \in (DOMAIN m) \ {k} |-> m[x]]

\* Ord for String: lexicographic on bytes.
RECURSIVE StrLess(_, _)
StrLess(a, b) ==
  IF Len(b) = 0 THEN FALSE
  ELSE IF Len(a) = 0 THEN TRUE
  ELSE IF a[1] # b[1] THEN a[1] < b[1]
  ELSE StrLess(Tail(a), Tail(b))

MinKey(S) == CHOOSE k \in S : \A o \in S \ {k} : StrLess(k, o)

\* The keys of a map in iteration order.
RECURSIVE SortedKeys(_)
SortedKeys(S) ==
  IF S = {} THEN <<>>
  ELSE LET k == MinKey(S) IN <<k>> \o SortedKeys(S \ {k})

RECURSIVE SerializeEntries(_, _)
SerializeEntries(m, ks) ==
  IF ks = <<>> THEN <<>>
  ELSE SerializeBytes(Head(ks)) \o SerializeBytes(m[Head(ks)])
         \o SerializeEntries(m, Tail(ks))

\* bincode::serialize(&Database { data })
SerializeDb(m) ==
  U64LE(Cardinality(DOMAIN m)) \o SerializeEntries(m, SortedKeys(DOMAIN m))

RECURSIVE ReadEntries(_, _, _, _)
ReadEntries(b, pos, n, acc) ==
  IF n = 0 THEN [ok |-> TRUE, data |-> acc]
  ELSE LET k == ReadBytes(b, pos)
       IN IF ~(k.ok /\ ValidUtf8(k.s)) THEN [ok |-> FALSE, data |-> EmptyMap]
          ELSE LET v == ReadBytes(b, k.next)
               IN IF ~v.ok THEN [ok |-> FALSE, data |-> EmptyMap]
                  ELSE ReadEntries(b, v.next, n - 1, MapInsert(acc, k.s, v.s))

\* bincode::deserialize::<Database>(&buffer)
DeserializeDb(b) ==
  IF Len(b) < U64Width THEN [ok |-> FALSE, data |-> EmptyMap]
  ELSE ReadEntries(b, U64Width + 1, ReadU64(b, 1), EmptyMap)

(***************************************************************************)
(* State                                                                   *)
(***************************************************************************)
VARIABLES
  dir,      \* the parent directory of the store's path exists
  file,     \* the file at the store's path: [exists, bytes]
  store,    \* "none" or "open": whether a Store value exists
  data,     \* Database.data of the Store (or of the Database being loaded)
  lock,     \* the RwLock: [writer (0 = none), readers, poisoned]
  mpc,      \* where the thread that opens the Store is, in Store::open
  mres,     \* the result of Store::open, while mpc = "ret"
  pc,       \* where each client thread is, in its call
  call,     \* each client thread's call: [op, key, val, ty]
  res,      \* each client thread's result, once computed
  hist,     \* history: per key, the last mutation since the Store was opened
  allOk,    \* history: every set/remove on this Store so far returned Ok
  prev,     \* history: the map and allOk of the Store dropped last
  pre,      \* history: map and file when the running set/remove began, kept
            \* when its mutation left the map as it was
  ostart,   \* history: what Store::open found on the filesystem when called
  seq       \* history: the calls run one at a time in the order of their lock
            \* grants: [data (the map after them), res (per thread, the result
            \* of its running call)]

fsVars == <<dir, file>>
storeVars == <<store, data, lock>>
mainVars == <<mpc, mres>>
threadVars == <<pc, call, res>>
histVars == <<hist, allOk, prev, pre, ostart, seq>>
vars == <<dir, file, store, data, lock, mpc, mres, pc, call, res,
          hist, allOk, prev, pre, ostart, seq>>

NoFile == [exists |-> FALSE, bytes |-> <<>>]
FileOf(b) == [exists |-> TRUE, bytes |-> b]

UnitVal == [ty |-> "()", v |-> <<>>]
NoRes == [kind |-> "none", val |-> UnitVal, key |-> <<>>]
Ok(val) == [kind |-> "Ok", val |-> val, key |-> <<>>]
\* StoreError::Io, StoreError::Bincode, StoreError::KeyNotFound(key)
ErrIo == [kind |-> "Io", val |-> UnitVal, key |-> <<>>]
ErrBincode == [kind |-> "Bincode", val |-> UnitVal, key |-> <<>>]
ErrKeyNotFound(k) == [kind |-> "KeyNotFound", val |-> UnitVal, key |-> k]

NoCall == [op |-> "none", key |-> <<>>, val |-> UnitVal, ty |-> "()"]

Unlocked == [writer |-> 0, readers |-> {}, poisoned |-> FALSE]

\* History values of a key: not touched since an existing file was loaded;
\* never set since a new file was created, or removed last; set last.
HistUnknown == [kind |-> "unknown", val |-> UnitVal]
HistAbsent == [kind |-> "absent", val |-> UnitVal]
HistSet(val) == [kind |-> "set", val |-> val]

NoPre == [some |-> FALSE, data |-> EmptyMap, file |-> NoFile]
PreOf(m, f) == [some |-> TRUE, data |-> m, file |-> f]
NoPrev == [some |-> FALSE, data |-> EmptyMap, allOk |-> TRUE]
\* The one-at-a-time run of the calls of a Store that holds the map m and
\* has no call running.
SeqOf(m) == [data |-> m, res |-> [t \in Threads |-> NoRes]]

\* The maps a previous session can have left in the file.
StoredBytes == { SerializeValue(v).bytes : v \in { x \in Values : SerializeValue(x).ok } }
InitMaps == { EmptyMap } \cup { MapInsert(EmptyMap, k, b) : k \in Keys, b \in StoredBytes }

\* File contents that are not a snapshot: an empty file, a snapshot cut short.
CorruptFiles == { <<>>, U64LE(1), U64LE(1) \o U64LE(1) }

Init ==
  /\ \/ /\ dir = FALSE
        /\ file = NoFile
     \/ /\ dir = TRUE
        /\ file = NoFile
     \/ /\ dir = TRUE
        /\ \E m \in InitMaps : file = FileOf(SerializeDb(m))
     \/ /\ dir = TRUE
        /\ \E b \in CorruptFiles : file = FileOf(b)
  /\ store = "none"
  /\ data = EmptyMap
  /\ lock = Unlocked
  /\ mpc = "idle"
  /\ mres = NoRes
  /\ pc = [t \in Threads |-> "idle"]
  /\ call = [t \in Threads |-> NoCall]
  /\ res = [t \in Threads |-> NoRes]
  /\ hist = [k \in AllKeys |-> HistUnknown]
  /\ allOk = TRUE
  /\ prev = NoPrev
  /\ pre = NoPre
  /\ ostart = "-"
  /\ seq = SeqOf(EmptyMap)

(***************************************************************************)
(* Database::save (store.rs 130-138), as its effects on the file.          *)
(***************************************************************************)
\* A File::create that opens the file for writing without truncating it.
FileCreateKeep(d, f) ==
  IF d THEN [ok |-> TRUE, file |-> FileOf(f.bytes)] ELSE [ok |-> FALSE, file |-> f]

\* File::create(path): the file exists and is truncated to nothing; NotFound
\* when the directory of the path does not exist.
FileCreate(d, f) ==
  IF d THEN [ok |-> TRUE, file |-> FileOf(<<>>)] ELSE [ok |-> FALSE, file |-> f]

\* Writing b at offset 0 of a file that holds old.
Overwrite(old, b) == b \o SubSeq(old, Len(b) + 1, Len(old))

\* A save that creates the file and writes nothing to it.
WriteAllNothing(f, encoded) == f

\* write_all(&encoded) that succeeds, then flush: the file holds the encoding.
WriteAll(f, encoded) == FileOf(Overwrite(f.bytes, encoded))

\* write_all(&encoded) that fails: some, not all, of the bytes were written.
PartialWrites(f, encoded) ==
  { FileOf(Overwrite(f.bytes, SubSeq(encoded, 1, n))) : n \in 0..(Len(encoded) - 1) }

(***************************************************************************)
(* Store::open (store.rs 39-46) and Database::load (store.rs 106-128)      *)
(***************************************************************************)
OpenCall ==
  /\ store = "none"
  /\ mpc = "idle"
  /\ mpc' = "create_dir"
  /\ mres' = NoRes
  /\ ostart' = IF ~dir THEN "no_dir"
                ELSE IF ~file.exists THEN "no_file"
                ELSE IF DeserializeDb(file.bytes).ok THEN "file"
                ELSE "corrupt"
  /\ UNCHANGED <<fsVars, storeVars, threadVars, hist, allOk, prev, pre, seq>>

\* A load that goes on to the file without creating the directories.
CreateDirAllSkip ==
  /\ mpc = "create_dir"
  /\ mpc' = "file_open"
  /\ UNCHANGED <<fsVars, storeVars, mres, threadVars, histVars>>

\* fs::create_dir_all(parent)?
CreateDirAllOk ==
  /\ mpc = "create_dir"
  /\ dir' = TRUE
  /\ mpc' = "file_open"
  /\ UNCHANGED <<file, storeVars, mres, threadVars, histVars>>

CreateDirAllErr ==
  /\ mpc = "create_dir"
  /\ ~dir
  /\ mpc' = "ret"
  /\ mres' = ErrIo
  /\ UNCHANGED <<fsVars, storeVars, threadVars, histVars>>

\* The Store of a Database loaded or created: history starts afresh.
OpenedWith(m, known) ==
  /\ store' = "open"
  /\ data' = m
  /\ lock' = Unlocked
  /\ hist' = [k \in AllKeys |-> IF known THEN HistAbsent ELSE HistUnknown]
  /\ allOk' = TRUE
  /\ seq' = SeqOf(m)
  /\ mpc' = "ret"
  /\ mres' = Ok(UnitVal)

\* File::open is Ok: read_to_end, then bincode::deserialize::<Database>.
LoadExisting ==
  /\ mpc = "file_open"
  /\ file.exists
  /\ LET r == DeserializeDb(file.bytes)
     IN /\ r.ok
        /\ OpenedWith(r.data, FALSE)
  /\ UNCHANGED <<fsVars, threadVars, prev, pre, ostart>>

\* A load that recreates a store it cannot decode, as it creates a missing
\* one.
LoadCorruptRecreate ==
  /\ mpc = "file_open"
  /\ file.exists
  /\ ~DeserializeDb(file.bytes).ok
  /\ data' = EmptyMap
  /\ mpc' = "save_create"
  /\ UNCHANGED <<fsVars, store, lock, mres, threadVars, histVars>>

\* bincode::deserialize::<Database>(&buffer)? returns the error.
LoadCorrupt ==
  /\ mpc = "file_open"
  /\ file.exists
  /\ ~DeserializeDb(file.bytes).ok
  /\ mpc' = "ret"
  /\ mres' = ErrBincode
  /\ UNCHANGED <<fsVars, storeVars, threadVars, histVars>>

\* File::open or read_to_end fails with an error other than NotFound.
LoadIoErr ==
  /\ mpc = "file_open"
  /\ file.exists
  /\ mpc' = "ret"
  /\ mres' = ErrIo
  /\ UNCHANGED <<fsVars, storeVars, threadVars, histVars>>

\* File::open is NotFound: Database::new(), then db.save(path)?
LoadNotFound ==
  /\ mpc = "file_open"
  /\ ~file.exists
  /\ data' = EmptyMap
  /\ mpc' = "save_create"
  /\ UNCHANGED <<fsVars, store, lock, mres, threadVars, histVars>>

LoadSaveCreate ==
  /\ mpc = "save_create"
  /\ LET c == FileCreate(dir, file)
     IN /\ file' = c.file
        /\ mpc' = IF c.ok THEN "save_write" ELSE "ret"
        /\ mres' = IF c.ok THEN mres ELSE ErrIo
  /\ UNCHANGED <<dir, storeVars, threadVars, histVars>>

LoadSaveCreateErr ==
  /\ mpc = "save_create"
  /\ mpc' = "ret"
  /\ mres' = ErrIo
  /\ UNCHANGED <<fsVars, storeVars, threadVars, histVars>>

LoadSaveWriteOk ==
  /\ mpc = "save_write"
  /\ file' = WriteAll(file, SerializeDb(data))
  /\ OpenedWith(data, TRUE)
  /\ UNCHANGED <<dir, threadVars, prev, pre, ostart>>

LoadSaveWriteErr ==
  /\ mpc = "save_write"
  /\ file' \in PartialWrites(file, SerializeDb(data))
  /\ mpc' = "ret"
  /\ mres' = ErrIo
  /\ UNCHANGED <<dir, storeVars, threadVars, histVars>>

\* Store::open has returned to its caller.
OpenReturn ==
  /\ mpc = "ret"
  /\ mpc' = "idle"
  /\ mres' = NoRes
  /\ prev' = NoPrev
  /\ ostart' = "-"
  /\ UNCHANGED <<fsVars, storeVars, threadVars, hist, allOk, pre, seq>>

\* The Store is released (dropped) by its last owner: its memory is gone.
DropStore ==
  /\ store = "open"
  /\ mpc = "idle"
  /\ \A t \in Threads : pc[t] = "idle"
  /\ store' = "none"
  /\ prev' = [some |-> TRUE, data |-> data, allOk |-> allOk]
  /\ data' = EmptyMap
  /\ hist' = [k \in AllKeys |-> HistUnknown]
  /\ allOk' = TRUE
  /\ seq' = SeqOf(EmptyMap)
  /\ UNCHANGED <<fsVars, lock, mainVars, threadVars, pre, ostart>>

(***************************************************************************)
(* Store::set, Store::get, Store::remove (store.rs 52-91), called by the   *)
(* client threads, and Database::set/get/remove (store.rs 140-160).        *)
(***************************************************************************)
\* A call begins: the thread asks for the lock.  The arguments are first
\* looked at once the lock is granted (store.rs 58, 75, 87), and are chosen
\* there.
Calls(t, o) ==
  /\ store = "open"
  /\ mpc = "idle"
  /\ pc[t] = "idle"
  /\ pc' = [pc EXCEPT ![t] = "lock"]
  /\ call' = [call EXCEPT ![t] = [NoCall EXCEPT !.op = o]]
  /\ UNCHANGED <<fsVars, storeVars, mainVars, res, histVars>>

CallSet(t) == Calls(t, "set")

CallGet(t) == Calls(t, "get")

CallRemove(t) == Calls(t, "remove")

\* A write lock that waits for the readers only, not for another writer.
CanWriteBesideWriter(l) == l.readers = {}

\* RwLock::write: granted when nobody holds the lock.
CanWrite(l) == l.writer = 0 /\ l.readers = {}

\* A read lock that does not wait for the writer.
CanReadAlways(l) == TRUE

\* RwLock::read: granted when no writer holds the lock.
CanRead(l) == l.writer = 0

\* Database::get as a function of the map
GetResult(m, k, ty) ==
  IF k \in DOMAIN m
  THEN LET d == DeserializeValue(ty, m[k])
       IN IF d.ok THEN Ok(d.val) ELSE ErrBincode
  ELSE ErrKeyNotFound(k)

\* The call c of thread t run alone on the map of q, after the calls that
\* were granted the lock before it: Database::set, remove or get.
SeqCall(q, t, c) ==
  IF c.op = "set"
  THEN LET e == SerializeValue(c.val)
       IN IF e.ok
          THEN [data |-> MapInsert(q.data, c.key, e.bytes),
                res |-> [q.res EXCEPT ![t] = Ok(UnitVal)]]
          ELSE [q EXCEPT !.res[t] = ErrBincode]
  ELSE IF c.op = "remove"
  THEN [data |-> MapRemove(q.data, c.key),
        res |-> [q.res EXCEPT ![t] = Ok(UnitVal)]]
  ELSE [q EXCEPT !.res[t] = GetResult(q.data, c.key, c.ty)]

\* A lock that never reports that it is poisoned.
PoisonedNever(l) == FALSE

\* The Err(PoisonError) of RwLock::write and RwLock::read: a thread has
\* panicked while it held the write guard.
Poisoned(l) == l.poisoned

\* Thread t is granted the lock for the call c.
Acquires(t, c, l) ==
  /\ pc[t] = "lock"
  /\ call[t].op = c.op
  /\ ~Poisoned(lock)
  /\ lock' = l
  /\ call' = [call EXCEPT ![t] = c]
  /\ pc' = [pc EXCEPT ![t] = "db"]
  /\ seq' = SeqCall(seq, t, c)
  /\ UNCHANGED <<fsVars, store, data, mainVars, res, hist, allOk, prev, pre, ostart>>

\* self.db.write() in Store::set(key, value)
SetAcquire(t, k, v) ==
  /\ CanWrite(lock)
  /\ Acquires(t, [op |-> "set", key |-> k, val |-> v, ty |-> v.ty],
              [lock EXCEPT !.writer = t])

\* self.db.write() in Store::remove(key)
RemoveAcquire(t, k) ==
  /\ CanWrite(lock)
  /\ Acquires(t, [op |-> "remove", key |-> k, val |-> UnitVal, ty |-> "()"],
              [lock EXCEPT !.writer = t])

\* self.db.read() in Store::get::<ty>(key)
GetAcquire(t, k, ty) ==
  /\ CanRead(lock)
  /\ Acquires(t, [op |-> "get", key |-> k, val |-> UnitVal, ty |-> ty],
              [lock EXCEPT !.readers = @ \cup {t}])

\* Database::set: the value encodes and the entry is inserted or replaced.
DbSet(t) ==
  /\ pc[t] = "db"
  /\ call[t].op = "set"
  /\ LET e == SerializeValue(call[t].val)
     IN /\ e.ok
        /\ data' = MapInsert(data, call[t].key, e.bytes)
  /\ hist' = [hist EXCEPT ![call[t].key] = HistSet(call[t].val)]
  /\ pre' = IF data' = data THEN PreOf(data, file) ELSE NoPre
  /\ pc' = [pc EXCEPT ![t] = "save_create"]
  /\ UNCHANGED <<fsVars, store, lock, mainVars, call, res, allOk, prev, ostart, seq>>

\* A set that takes the old entry of the key out of the map before it
\* encodes the value.
DbSetErrDrops(t) ==
  /\ pc[t] = "db"
  /\ call[t].op = "set"
  /\ ~SerializeValue(call[t].val).ok
  /\ data' = MapRemove(data, call[t].key)
  /\ res' = [res EXCEPT ![t] = ErrBincode]
  /\ pc' = [pc EXCEPT ![t] = "unlock"]
  /\ UNCHANGED <<fsVars, store, lock, mainVars, call, histVars>>

\* Database::set: bincode::serialize(&value)? returns the error.
DbSetErr(t) ==
  /\ pc[t] = "db"
  /\ call[t].op = "set"
  /\ ~SerializeValue(call[t].val).ok
  /\ res' = [res EXCEPT ![t] = ErrBincode]
  /\ pc' = [pc EXCEPT ![t] = "unlock"]
  /\ UNCHANGED <<fsVars, storeVars, mainVars, call, histVars>>

\* Database::remove
DbRemove(t) ==
  /\ pc[t] = "db"
  /\ call[t].op = "remove"
  /\ data' = MapRemove(data, call[t].key)
  /\ hist' = [hist EXCEPT ![call[t].key] = HistAbsent]
  /\ pre' = IF data' = data THEN PreOf(data, file) ELSE NoPre
  /\ pc' = [pc EXCEPT ![t] = "save_create"]
  /\ UNCHANGED <<fsVars, store, lock, mainVars, call, res, allOk, prev, ostart, seq>>

\* A get that loads the Database from the file again and looks the key up
\* there.
DbGetReload(t) ==
  /\ pc[t] = "db"
  /\ call[t].op = "get"
  /\ LET r == IF file.exists
              THEN DeserializeDb(file.bytes)
              ELSE [ok |-> FALSE, data |-> EmptyMap]
     IN res' = [res EXCEPT ![t] = IF r.ok
                                  THEN GetResult(r.data, call[t].key, call[t].ty)
                                  ELSE ErrIo]
  /\ pc' = [pc EXCEPT ![t] = "unlock"]
  /\ UNCHANGED <<fsVars, storeVars, mainVars, call, histVars>>

\* db.get(key.as_ref()) in Store::get
DbGet(t) ==
  /\ pc[t] = "db"
  /\ call[t].op = "get"
  /\ res' = [res EXCEPT ![t] = GetResult(data, call[t].key, call[t].ty)]
  /\ pc' = [pc EXCEPT ![t] = "unlock"]
  /\ UNCHANGED <<fsVars, storeVars, mainVars, call, histVars>>

\* db.save(&self.path)? in set and remove: File::create
SaveCreate(t) ==
  /\ pc[t] = "save_create"
  /\ LET c == FileCreate(dir, file)
     IN /\ file' = c.file
        /\ pc' = [pc EXCEPT ![t] = IF c.ok THEN "save_write" ELSE "unlock"]
        /\ res' = [res EXCEPT ![t] = IF c.ok THEN @ ELSE ErrIo]
  /\ UNCHANGED <<dir, storeVars, mainVars, call, histVars>>

SaveCreateErr(t) ==
  /\ pc[t] = "save_create"
  /\ res' = [res EXCEPT ![t] = ErrIo]
  /\ pc' = [pc EXCEPT ![t] = "unlock"]
  /\ UNCHANGED <<fsVars, storeVars, mainVars, call, histVars>>

\* write_all and flush, then Ok(()) from save and from set/remove
SaveWriteOk(t) ==
  /\ pc[t] = "save_write"
  /\ file' = WriteAll(file, SerializeDb(data))
  /\ res' = [res EXCEPT ![t] = Ok(UnitVal)]
  /\ pc' = [pc EXCEPT ![t] = "unlock"]
  /\ UNCHANGED <<dir, storeVars, mainVars, call, histVars>>

SaveWriteErr(t) ==
  /\ pc[t] = "save_write"
  /\ file' \in PartialWrites(file, SerializeDb(data))
  /\ res' = [res EXCEPT ![t] = ErrIo]
  /\ pc' = [pc EXCEPT ![t] = "unlock"]
  /\ UNCHANGED <<dir, storeVars, mainVars, call, histVars>>

\* A guard that is given back only when the call returns Ok.
UnlockUnlessErr(l, t) ==
  IF res[t].kind \in {"Ok", "none"}
  THEN [l EXCEPT !.writer = IF @ = t THEN 0 ELSE @, !.readers = @ \ {t}]
  ELSE l

\* A guard that is leaked: the lock stays held.
UnlockLeak(l, t) == l

\* The lock a guard going out of scope gives back.
Unlock(l, t) ==
  [l EXCEPT !.writer = IF @ = t THEN 0 ELSE @, !.readers = @ \ {t}]

\* The guard is dropped and the call returns its result.
Release(t) ==
  /\ pc[t] = "unlock"
  /\ lock' = Unlock(lock, t)
  /\ allOk' = (allOk /\ (call[t].op = "get" \/ res[t].kind = "Ok"))
  /\ pc' = [pc EXCEPT ![t] = "idle"]
  /\ call' = [call EXCEPT ![t] = NoCall]
  /\ res' = [res EXCEPT ![t] = NoRes]
  /\ pre' = NoPre
  /\ seq' = [seq EXCEPT !.res[t] = NoRes]
  /\ UNCHANGED <<fsVars, store, data, mainVars, hist, prev, ostart>>

(***************************************************************************)
(* Specifications                                                          *)
(***************************************************************************)
\* The thread that uses the Store alone in Spec.
Client == 1

\* What Store::open does when no filesystem call reports an error.
OpenNoFault ==
  \/ OpenCall
  \/ CreateDirAllOk
  \/ LoadExisting
  \/ LoadCorrupt
  \/ LoadNotFound
  \/ LoadSaveCreate
  \/ LoadSaveWriteOk
  \/ OpenReturn

\* The same for a path that holds no file.
OpenNew ==
  \/ OpenCall
  \/ CreateDirAllOk
  \/ LoadNotFound
  \/ LoadSaveCreate
  \/ LoadSaveWriteOk
  \/ OpenReturn

\* What a call of thread t does, once it holds the lock, when no filesystem
\* call reports an error.
StepNoFault(t) ==
  \/ DbSet(t)
  \/ DbSetErr(t)
  \/ DbRemove(t)
  \/ DbGet(t)
  \/ SaveCreate(t)
  \/ SaveWriteOk(t)
  \/ Release(t)

\* The same, filesystem errors included.
Step(t) ==
  \/ StepNoFault(t)
  \/ SaveCreateErr(t)
  \/ SaveWriteErr(t)

\* Thread t begins a call on a key of ks, writing a value of vs or reading
\* at a type of tys.
BeginTyped(t, ks, vs, tys) ==
  \/ CallSet(t)
  \/ CallGet(t)
  \/ CallRemove(t)
  \/ \E k \in ks, v \in vs : SetAcquire(t, k, v)
  \/ \E k \in ks, ty \in tys : GetAcquire(t, k, ty)
  \/ \E k \in ks : RemoveAcquire(t, k)

\* The same, reading at every type.
Begin(t, ks, vs) == BeginTyped(t, ks, vs, ReadTypes)

\* One client, no filesystem errors; the Store may be dropped and reopened.
NextNoFault ==
  \/ OpenNoFault
  \/ DropStore
  \/ Begin(Client, Keys, Values)
  \/ StepNoFault(Client)

SpecNoFault == Init /\ [][NextNoFault]_vars

\* One client; every filesystem call may fail.
Next ==
  \/ NextNoFault
  \/ CreateDirAllErr
  \/ LoadIoErr
  \/ LoadSaveCreateErr
  \/ LoadSaveWriteErr
  \/ SaveCreateErr(Client)
  \/ SaveWriteErr(Client)

Spec == Init /\ [][Next]_vars

\* The values the threads of SpecConc write.
ConcValues == { StringVal(<<120>>), OpaqueVal }

\* The type the threads of SpecConc read at: what a get returns plays no part
\* in the lock or in the file.
ConcTypes == { "String" }

\* A Store opened on a new path and shared by all the threads; every
\* filesystem call of a set or remove may fail.
InitConc ==
  /\ Init
  /\ file = NoFile

NextConc ==
  \/ OpenNew
  \/ \E t \in Threads : BeginTyped(t, Keys, ConcValues, ConcTypes)
  \/ \E t \in Threads : Step(t)

SpecConc == InitConc /\ [][NextConc]_vars

\* The values the threads of SpecDisjoint write.
DisjointValues == { StringVal(<<120>>), U8Val(7) }

\* Thread t has no more calls to make: its closure ends.
Finish(t) ==
  /\ pc[t] = "idle"
  /\ hist[DisjointKey(t)].kind = "set"
  /\ pc' = [pc EXCEPT ![t] = "done"]
  /\ UNCHANGED <<fsVars, storeVars, mainVars, call, res, histVars>>

\* Thread t of the concurrent tests (store.rs 228-295): it sets its own key
\* once, then gets it, and ends.
Disjoint(t) ==
  \/ hist[DisjointKey(t)].kind # "set" /\ CallSet(t)
  \/ hist[DisjointKey(t)].kind = "set" /\ CallGet(t)
  \/ \E v \in DisjointValues : SetAcquire(t, DisjointKey(t), v)
  \/ \E ty \in ReadTypes : GetAcquire(t, DisjointKey(t), ty)
  \/ DbSet(t)
  \/ DbGet(t)
  \/ SaveCreate(t)
  \/ SaveWriteOk(t)
  \/ Release(t)
  \/ Finish(t)

NextDisjoint ==
  \/ OpenNew
  \/ \E t \in Threads : Disjoint(t)

\* Every thread goes on running (the store's calls do not block but on the
\* lock, which is granted when free), and every thread makes finitely many
\* calls.
FairDisjoint ==
  /\ WF_vars(OpenNew)
  /\ \A t \in Threads : WF_vars(Disjoint(t)) /\ SF_vars(Finish(t))

SpecDisjoint == InitConc /\ [][NextDisjoint]_vars /\ FairDisjoint

(***************************************************************************)
(* Panics under the lock, and the poisoned lock (store.rs 53-56, 70-73,    *)
(* 82-85).                                                                 *)
(***************************************************************************)
\* The Serialize implementation of the value panics inside Database::set
\* (store.rs 141): unwinding drops the write guard, which poisons the lock,
\* and the thread is gone.
PanicInSet(t) ==
  /\ pc[t] = "db"
  /\ call[t].op = "set"
  /\ lock' = [Unlock(lock, t) EXCEPT !.poisoned = TRUE]
  /\ pc' = [pc EXCEPT ![t] = "panicked"]
  /\ UNCHANGED <<fsVars, store, data, mainVars, call, res, histVars>>

\* The Deserialize implementation panics inside Database::get (store.rs
\* 150): a read guard dropped by unwinding does not poison the lock.
PanicInGet(t) ==
  /\ pc[t] = "db"
  /\ call[t].op = "get"
  /\ lock' = Unlock(lock, t)
  /\ pc' = [pc EXCEPT ![t] = "panicked"]
  /\ UNCHANGED <<fsVars, store, data, mainVars, call, res, histVars>>

\* write() or read() on the poisoned lock: once the lock is free the call
\* gets Err(PoisonError), map_err drops the guard inside it and `?` returns
\* StoreError::Io("Lock poisoned").
AcquirePoisoned(t) ==
  /\ pc[t] = "lock"
  /\ Poisoned(lock)
  /\ IF call[t].op = "get" THEN CanRead(lock) ELSE CanWrite(lock)
  /\ res' = [res EXCEPT ![t] = ErrIo]
  /\ pc' = [pc EXCEPT ![t] = "unlock"]
  /\ UNCHANGED <<fsVars, storeVars, mainVars, call, histVars>>

\* The key and the value of the calls of SpecPoison.
PoisonKey == <<97>>

PoisonValue == StringVal(<<120>>)

\* A thread of SpecPoison: any call on one key, no filesystem error, and a
\* panic wherever the code of the caller's type runs.
PoisonThread(t) ==
  \/ CallSet(t)
  \/ CallGet(t)
  \/ CallRemove(t)
  \/ SetAcquire(t, PoisonKey, PoisonValue)
  \/ GetAcquire(t, PoisonKey, "String")
  \/ RemoveAcquire(t, PoisonKey)
  \/ AcquirePoisoned(t)
  \/ DbSet(t)
  \/ DbRemove(t)
  \/ DbGet(t)
  \/ PanicInSet(t)
  \/ PanicInGet(t)
  \/ SaveCreate(t)
  \/ SaveWriteOk(t)
  \/ Release(t)

NextPoison ==
  \/ OpenNew
  \/ \E t \in Threads : PoisonThread(t)

SpecPoison == InitConc /\ [][NextPoison]_vars

\* The key the threads of SpecRace race for.
RaceKey == <<97>>

\* A thread of SpecRace: any call on the one key, with either value, read as
\* either type; every filesystem call of a save may fail.
RaceThread(t) ==
  \/ CallSet(t)
  \/ CallGet(t)
  \/ CallRemove(t)
  \/ \E v \in DisjointValues : SetAcquire(t, RaceKey, v)
  \/ \E ty \in ReadTypes : GetAcquire(t, RaceKey, ty)
  \/ RemoveAcquire(t, RaceKey)
  \/ DbSet(t)
  \/ DbRemove(t)
  \/ DbGet(t)
  \/ SaveCreate(t)
  \/ SaveCreateErr(t)
  \/ SaveWriteOk(t)
  \/ SaveWriteErr(t)
  \/ Release(t)

NextRace ==
  \/ OpenNew
  \/ \E t \in Threads : RaceThread(t)

SpecRace == InitConc /\ [][NextRace]_vars

(***************************************************************************)
(* The end of the process: killed, or lost with the machine.               *)
(***************************************************************************)
\* A process exists: it holds a Store or is in Store::open.
Running == store = "open" \/ mpc # "idle"

\* A save is between File::create and the end of write_all (store.rs
\* 132-134), in a set or remove or in Database::load.
SaveRunning == mpc = "save_write" \/ \E t \in Threads : pc[t] = "save_write"

\* No call is in progress and every set and remove returned Ok.
Settled ==
  /\ store = "open"
  /\ mpc = "idle"
  /\ allOk
  /\ \A t \in Threads : pc[t] = "idle"

\* The memory of the process is gone; prev keeps the map it held, and
\* whether every call on it had returned Ok.
ProcessEnds ==
  /\ store' = "none"
  /\ data' = EmptyMap
  /\ lock' = Unlocked
  /\ mpc' = "idle"
  /\ mres' = NoRes
  /\ pc' = [t \in Threads |-> "idle"]
  /\ call' = [t \in Threads |-> NoCall]
  /\ res' = [t \in Threads |-> NoRes]
  /\ hist' = [k \in AllKeys |-> HistUnknown]
  /\ allOk' = TRUE
  /\ prev' = [some |-> TRUE, data |-> data, allOk |-> Settled]
  /\ pre' = NoPre
  /\ ostart' = "-"
  /\ seq' = SeqOf(EmptyMap)

\* The process is killed.  What it wrote to the file stays; a write_all in
\* progress has written some of its bytes, or none, not all.
Crash ==
  /\ Running
  /\ IF SaveRunning
     THEN file' \in PartialWrites(file, SerializeDb(data))
     ELSE file' = file
  /\ dir' = dir
  /\ ProcessEnds

\* What a file can hold after the machine failed: save calls File::flush
\* (store.rs 135), which for a File does nothing, and never sync_all, so
\* nothing written to the file is known to be on the storage medium: the
\* content may be there, or the file may be empty, or missing.
AfterMachineFailure(f) ==
  IF f.exists THEN { f, FileOf(<<>>), NoFile } ELSE { f }

\* The machine fails (power is lost) and is started again, at any moment
\* outside a save (within a save, Crash gives what is lost at the least).
MachineFail ==
  /\ Running
  /\ ~SaveRunning
  /\ file' \in AfterMachineFailure(file)
  /\ dir' = dir
  /\ ProcessEnds

\* One client on a new path, no error reported by the filesystem; the
\* process can be killed and the machine can fail at any moment, and the
\* Store is then opened again.
NextCrash ==
  \/ OpenNoFault
  \/ Begin(Client, Keys, Values)
  \/ StepNoFault(Client)
  \/ Crash
  \/ MachineFail

SpecCrash == InitConc /\ [][NextCrash]_vars

(***************************************************************************)
(* The file deleted under an open Store (test_store_corruption, store.rs   *)
(* 187-201).                                                               *)
(***************************************************************************)
\* fs::remove_file(db_path), while the Store is open and no save is writing.
RemoveFile ==
  /\ store = "open"
  /\ file.exists
  /\ ~SaveRunning
  /\ file' = NoFile
  /\ UNCHANGED <<dir, storeVars, mainVars, threadVars, histVars>>

\* One client of a Store opened on a new path; every filesystem call of a
\* save may fail, and the file may be deleted at any moment.
NextDeleted ==
  \/ OpenNew
  \/ Begin(Client, Keys, Values)
  \/ Step(Client)
  \/ RemoveFile

SpecDeleted == InitConc /\ [][NextDeleted]_vars

\* The values the threads of SpecFair write: one that encodes, one that
\* does not.
FairValues == { StringVal(<<120>>), OpaqueVal }

\* Thread t makes no more calls.
Quit(t) ==
  /\ store = "open"
  /\ pc[t] = "idle"
  /\ pc' = [pc EXCEPT ![t] = "done"]
  /\ UNCHANGED <<fsVars, storeVars, mainVars, call, res, histVars>>

\* A thread of SpecFair: calls on one key, in any number; the encoding may
\* fail, and the save may fail (at File::create).
FairThread(t) ==
  \/ CallSet(t)
  \/ CallGet(t)
  \/ CallRemove(t)
  \/ \E v \in FairValues : SetAcquire(t, RaceKey, v)
  \/ GetAcquire(t, RaceKey, "String")
  \/ RemoveAcquire(t, RaceKey)
  \/ DbSet(t)
  \/ DbSetErr(t)
  \/ DbRemove(t)
  \/ DbGet(t)
  \/ SaveCreate(t)
  \/ SaveCreateErr(t)
  \/ SaveWriteOk(t)
  \/ Release(t)
  \/ Quit(t)

NextFair ==
  \/ OpenNew
  \/ \E t \in Threads : FairThread(t)

\* Every thread goes on running: a call that can take a step takes it (the
\* calls block on the lock only, which is granted when it stays free), and
\* every thread makes finitely many calls.
Fairness ==
  /\ WF_vars(OpenNew)
  /\ \A t \in Threads : WF_vars(FairThread(t)) /\ SF_vars(Quit(t))

SpecFair == InitConc /\ [][NextFair]_vars /\ Fairness

(***************************************************************************)
(* Properties                                                              *)
(***************************************************************************)
\* Thread t holds the result of a call of operation o, about to return it.
Returning(t, o) == pc[t] = "unlock" /\ call[t].op = o

\* What the file decodes to.
FileDb == DeserializeDb(file.bytes)

\* C1 (round trip): a get(k) read as the type of the value v that the last
\* set(k, v) wrote, with no set or remove of k in between, returns Ok(v);
\* the last set is the one that counts, so a later set(k, v2) makes it v2.
C1_RoundTrip ==
  \A t \in Threads :
    (/\ Returning(t, "get")
     /\ hist[call[t].key].kind = "set"
     /\ hist[call[t].key].val.ty = call[t].ty)
    => res[t] = Ok(hist[call[t].key].val)

\* A get returns the text written by a set, every set and remove so far
\* having returned Ok, while the other key holds a value too.
C1_Witness ==
  \E t \in Threads :
    /\ Returning(t, "get")
    /\ allOk
    /\ hist[call[t].key].kind = "set"
    /\ call[t].ty = "String"
    /\ res[t] = Ok(hist[call[t].key].val)
    /\ \A k \in Keys : k \in DOMAIN data

\* C2 (persistence across reopen): when every set and remove on a Store
\* returned Ok and the Store is dropped, Store::open on the same path never
\* finds the file undecodable, and the Store it returns holds exactly the
\* map the dropped Store held.
C2_PersistAcrossReopen ==
  (mpc = "ret" /\ prev.some /\ prev.allOk)
  => /\ mres.kind # "Bincode"
     /\ mres.kind = "Ok" => (store = "open" /\ data = prev.data)

\* A Store reopened with the two entries the dropped Store held.
C2_Witness ==
  /\ mpc = "ret"
  /\ prev.some
  /\ prev.allOk
  /\ mres.kind = "Ok"
  /\ data = prev.data
  /\ \A k \in Keys : k \in DOMAIN data

\* C3 (missing key): a get(k) returns KeyNotFound(k) whenever k is not in the
\* map: when k was never set since the Store was opened on a new file, and
\* when the last mutation of k was a remove.
C3_MissingKey ==
  \A t \in Threads :
    (/\ Returning(t, "get")
     /\ \/ call[t].key \notin DOMAIN data
        \/ hist[call[t].key].kind = "absent")
    => res[t] = ErrKeyNotFound(call[t].key)

\* A get returns KeyNotFound for a key removed from a Store that was opened
\* on an existing file (the other key was not touched since).
C3_Witness ==
  \E t \in Threads :
    /\ Returning(t, "get")
    /\ hist[call[t].key].kind = "absent"
    /\ \E k \in Keys : hist[k].kind = "unknown" /\ k \in DOMAIN data
    /\ res[t] = ErrKeyNotFound(call[t].key)

\* C4 (idempotent remove), as claimed: a remove(k) that finds no entry of k
\* changes nothing, in any reachable state: the map and the content of the
\* file are what they were before the call, and the call returns Ok (an
\* error of the filesystem during the call itself is not held against it).
C4_IdempotentRemove ==
  \A t \in Threads :
    (Returning(t, "remove") /\ pre.some)
    => /\ res[t].kind \in {"Ok", "Io"}
       /\ data = pre.data
       /\ res[t].kind = "Ok" => file = pre.file

\* C5 (directory auto-creation): with no error of the filesystem, Store::open
\* on a path whose file does not exist, its directory neither, returns Ok;
\* then the directory and the file exist, the file decodes to the empty map
\* and the map of the Store is empty.
C5_DirAutoCreate ==
  (mpc = "ret" /\ ostart \in {"no_dir", "no_file"})
  => /\ mres = Ok(UnitVal)
     /\ store = "open"
     /\ dir
     /\ file.exists
     /\ FileDb.ok
     /\ FileDb.data = EmptyMap
     /\ data = EmptyMap

\* Store::open has returned Ok on a path whose directory did not exist.
C5_Witness ==
  /\ mpc = "ret"
  /\ ostart = "no_dir"
  /\ mres = Ok(UnitVal)
  /\ dir
  /\ file.exists

\* A save returns Ok in this step: the one of a set or remove, or the one
\* of Database::load.
SaveReturnsOk ==
  \/ \E t \in Threads :
       pc[t] = "save_write" /\ pc'[t] = "unlock" /\ res'[t] = Ok(UnitVal)
  \/ mpc = "save_write" /\ mpc' = "ret" /\ mres' = Ok(UnitVal)

\* C7 (disk snapshot): the file comes to hold a content that decodes only by
\* a save that returns Ok, and it then decodes to exactly the map in memory
\* at that save; no step of a failing save, and no other step, leaves a new
\* decodable content (a mixture of snapshots, or a map not saved).
C7_DiskSnapshot ==
  [][(file' # file /\ file'.exists /\ DeserializeDb(file'.bytes).ok)
       => (SaveReturnsOk /\ DeserializeDb(file'.bytes).data = data /\ data' = data)]_vars

\* A set has failed in its save and the file still decodes: to the map of
\* the last save that returned Ok, which is not the map in memory.
C7_Witness ==
  \E t \in Threads :
    /\ Returning(t, "set")
    /\ res[t] = ErrIo
    /\ file.exists
    /\ FileDb.ok
    /\ FileDb.data # data
    /\ FileDb.data # EmptyMap

\* C8 (persist or fail): a set or remove that is about to return Ok, at the
\* moment it releases the lock, has the file decode to exactly the whole map
\* in memory; otherwise it returns an error.
C8_PersistOrFail ==
  \A t \in Threads :
    (pc[t] = "unlock" /\ call[t].op \in {"set", "remove"})
    => \/ /\ res[t] = Ok(UnitVal)
          /\ file.exists
          /\ FileDb.ok
          /\ FileDb.data = data
       \/ res[t] \in {ErrIo, ErrBincode}

\* A set returns Ok after an earlier call failed in its save: the file holds
\* both entries, the one of the failed call too.
C8_Witness ==
  \E t \in Threads :
    /\ Returning(t, "set")
    /\ res[t] = Ok(UnitVal)
    /\ ~allOk
    /\ FileDb.ok
    /\ FileDb.data = data
    /\ \A k \in Keys : k \in DOMAIN data

\* Thread t holds the lock (from the grant to the drop of the guard).
Holds(t) == pc[t] \in {"db", "save_create", "save_write", "unlock"}

\* C9 (lock discipline): a set or remove holds the lock alone, from the grant
\* through the mutation and the save to its return, with no get and no other
\* set or remove holding it; gets hold it together.
C9_LockDiscipline ==
  /\ lock.writer # 0 => lock.readers = {}
  /\ \A t \in Threads :
       /\ Holds(t) <=> (lock.writer = t \/ t \in lock.readers)
       /\ (Holds(t) /\ call[t].op \in {"set", "remove"})
            => (lock.writer = t /\ \A u \in Threads \ {t} : ~Holds(u))
       /\ (Holds(t) /\ call[t].op = "get") => t \in lock.readers

\* Two gets hold the lock together while a set waits for it.
C9_Witness ==
  /\ Cardinality(lock.readers) >= 2
  /\ \A t \in lock.readers : Holds(t) /\ call[t].op = "get"

\* In SpecDisjoint: what the threads have written is in the map and in the
\* file, each key with the value its thread wrote, and a get returns it.
DisjointKept ==
  /\ \A t \in Threads :
       hist[DisjointKey(t)].kind = "set"
       => /\ DisjointKey(t) \in DOMAIN data
          /\ data[DisjointKey(t)] = SerializeValue(hist[DisjointKey(t)].val).bytes
  /\ \A t \in Threads :
       (Returning(t, "get") /\ call[t].ty = hist[call[t].key].val.ty)
       => res[t] = Ok(hist[call[t].key].val)
  /\ (\A t \in Threads : pc[t] = "done")
       => (FileDb.ok /\ FileDb.data = data /\ DOMAIN data = { DisjointKey(t) : t \in Threads })

\* C6 (concurrent disjoint writers): with no save failure, every set of a
\* thread on its own key eventually returns Ok, under every interleaving;
\* no write is lost, and a get of each key returns the value its thread
\* wrote.
C6_DisjointWriters ==
  /\ \A t \in Threads :
       (pc[t] = "lock" /\ call[t].op = "set")
         ~> (Returning(t, "set") /\ res[t] = Ok(UnitVal))
  /\ <>(\A t \in Threads : pc[t] = "done")
  /\ []DisjointKept

\* All the threads have written and ended, the last get returning its value
\* while another thread waited for the lock.
C6_Witness ==
  /\ \E t \in Threads :
       /\ Returning(t, "get")
       /\ res[t] = Ok(hist[call[t].key].val)
  /\ \E t \in Threads : pc[t] = "lock"
  /\ \A t \in Threads : DisjointKey(t) \in DOMAIN data

\* The file decodes to a map that holds k with the bytes of v.
FileHolds(k, v) ==
  /\ file.exists
  /\ FileDb.ok
  /\ k \in DOMAIN FileDb.data
  /\ FileDb.data[k] = SerializeValue(v).bytes

\* The file decodes to a map that holds k.
FileHasKey(k) == file.exists /\ FileDb.ok /\ k \in DOMAIN FileDb.data

IsProperPrefix(a, b) == Len(a) < Len(b) /\ a = SubSeq(b, 1, Len(a))

\* C10 (failed save), as claimed, for a call that changes the map of a Store
\* whose earlier calls all returned Ok (the file held the map before): after
\* set(k, v) fails in its save, get(k) returns v and the file does not
\* contain it; after remove(k) fails in its save, get(k) fails with
\* KeyNotFound and the file still contains k.
C10_FailedSaveAsClaimed ==
  \A t \in Threads :
    (pc[t] = "unlock" /\ res[t] = ErrIo /\ ~pre.some /\ allOk)
    => /\ call[t].op = "set"
            => /\ GetResult(data, call[t].key, call[t].ty) = Ok(call[t].val)
               /\ ~FileHolds(call[t].key, call[t].val)
       /\ call[t].op = "remove"
            => /\ GetResult(data, call[t].key, "String") = ErrKeyNotFound(call[t].key)
               /\ FileHasKey(call[t].key)

\* A set or remove that returns Io has its mutation in the map.
C10_Memory ==
  \A t \in Threads :
    (pc[t] = "unlock" /\ res[t] = ErrIo)
    => /\ call[t].op \in {"set", "remove"}
       /\ call[t].op = "set"
            => GetResult(data, call[t].key, call[t].ty) = Ok(call[t].val)
       /\ call[t].op = "remove"
            => \A ty \in ReadTypes :
                 GetResult(data, call[t].key, ty) = ErrKeyNotFound(call[t].key)

\* The mutation leaves the file alone; the save that follows either writes
\* the whole snapshot and returns Ok, or returns Io with the file as it was
\* (File::create failed) or holding a proper prefix of the snapshot, which
\* does not decode (write_all failed).
C10_File ==
  \A t \in Threads :
    /\ (pc[t] = "db" /\ pc'[t] = "save_create") => file' = file
    /\ (pc[t] \in {"save_create", "save_write"} /\ pc'[t] = "unlock")
       => /\ data' = data
          /\ \/ /\ res'[t] = Ok(UnitVal)
                /\ file' = FileOf(SerializeDb(data))
             \/ /\ res'[t] = ErrIo
                /\ \/ pc[t] = "save_create" /\ file' = file
                   \/ /\ pc[t] = "save_write"
                      /\ file'.exists
                      /\ IsProperPrefix(file'.bytes, SerializeDb(data))
                      /\ ~DeserializeDb(file'.bytes).ok

\* C10 (failed save), amended: a failed save is returned as an Io error and
\* leaves the mutation in memory (get(k) returns v after a failed set,
\* KeyNotFound after a failed remove); the file is not given the new
\* snapshot: it is as it was before the call when File::create failed, and
\* a proper prefix of the new snapshot, which does not decode, when
\* write_all failed.
C10_FailedSave == []C10_Memory /\ [][C10_File]_vars

\* A remove of a stored key has failed in write_all: the key is gone from
\* memory and the file, cut short, no longer decodes.
C10_Witness ==
  \E t \in Threads :
    /\ Returning(t, "remove")
    /\ res[t] = ErrIo
    /\ ~pre.some
    /\ allOk
    /\ call[t].key \notin DOMAIN data
    /\ file.exists
    /\ ~FileDb.ok

C12_CorruptRecreated ==
  (mpc = "ret" /\ ostart = "corrupt")
  => /\ mres = Ok(UnitVal)
     /\ store = "open"
     /\ data = EmptyMap
     /\ file = FileOf(SerializeDb(EmptyMap))

\* C13 (lock poisoning): once a thread has panicked while it held the write
\* lock, no call is granted the lock any more (none reads the map), every
\* set, get and remove that returns returns the Io error, and no step
\* changes the map or the file; the lock stays poisoned.
C13_LockPoisoning ==
  /\ [](lock.poisoned
          => \A t \in Threads :
               /\ pc[t] \notin {"db", "save_create", "save_write"}
               /\ pc[t] = "unlock" => res[t] = ErrIo)
  /\ [][lock.poisoned => (data' = data /\ file' = file /\ lock'.poisoned)]_vars

\* A get of a key that the map holds returns the Io error: the thread that
\* set the key later panicked in another set.
C13_Witness ==
  \E t \in Threads :
    /\ lock.poisoned
    /\ Returning(t, "get")
    /\ res[t] = ErrIo
    /\ PoisonKey \in DOMAIN data
    /\ \E u \in Threads : pc[u] = "panicked" /\ call[u].op = "set"

\* C14 (serialization order): the calls give what they give when run one at
\* a time in the order of their lock grants (seq): a get returns the result
\* of that run; a set or remove leaves the map of that run, returns its
\* result unless its save failed (Io), and when it returns Ok the file is the
\* snapshot of that map; with no call under the lock the map is the one of
\* that run, so of two sets racing for a key the one granted the lock last
\* gives the final value.
C14_SerializationOrder ==
  /\ \A t \in Threads :
       Returning(t, "get") => res[t] = seq.res[t]
  /\ \A t \in Threads :
       (pc[t] = "unlock" /\ call[t].op \in {"set", "remove"})
       => /\ data = seq.data
          /\ res[t] \in {seq.res[t], ErrIo}
          /\ res[t].kind = "Ok" => file = FileOf(SerializeDb(seq.data))
  /\ (\A t \in Threads : ~Holds(t)) => data = seq.data
  /\ (store = "open" /\ allOk /\ \A t \in Threads : ~Holds(t))
       => file = FileOf(SerializeDb(seq.data))

\* A set returns Ok with its value in the map and in the file, after a set
\* of the other value to the same key, while another set waits for the lock.
C14_Witness ==
  \E t \in Threads, u \in Threads :
    /\ t # u
    /\ Returning(t, "set")
    /\ res[t] = Ok(UnitVal)
    /\ call[t].val = U8Val(7)
    /\ pc[u] = "lock"
    /\ call[u].op = "set"
    /\ data = seq.data
    /\ data[RaceKey] = SerializeValue(U8Val(7)).bytes
    /\ file = FileOf(SerializeDb(data))

C16_DurableFlush ==
  (mpc = "ret" /\ prev.some /\ prev.allOk)
  => /\ mres = Ok(UnitVal)
     /\ store = "open"
     /\ data = prev.data

\* C17 (file deleted under the Store), as asserted by test_store_corruption:
\* after every set on the Store returned Ok and the file was then deleted, a
\* get of a key that was set returns the Io error.
C17_GetAfterDeleteIsIo ==
  \A t \in Threads :
    (/\ Returning(t, "get")
     /\ store = "open"
     /\ ~file.exists
     /\ allOk
     /\ hist[call[t].key].kind = "set")
    => res[t] = ErrIo

\* Thread t is in a call: waiting for the lock, or under it.
InCall(t) == pc[t] = "lock" \/ Holds(t)

SetOfUnencodable(t) ==
  /\ pc[t] \in {"db", "unlock"}
  /\ call[t].op = "set"
  /\ ~SerializeValue(call[t].val).ok

\* C19 (encode failure is side-effect free): a set whose value does not
\* encode returns the Bincode error straight from Database::set, without
\* entering the save; from its lock grant to its return no step changes the
\* map (an earlier entry of the key stays) or the file.
C19_EncodeFailure ==
  /\ [][\A t \in Threads :
          (/\ pc'[t] # pc[t]
           /\ \/ SetOfUnencodable(t)
              \/ /\ pc'[t] = "db"
                 /\ call'[t].op = "set"
                 /\ ~SerializeValue(call'[t].val).ok)
          => /\ data' = data
             /\ file' = file
             /\ pc'[t] \notin {"save_create", "save_write"}
             /\ pc[t] = "db" => (pc'[t] = "unlock" /\ res'[t] = ErrBincode)]_vars
  /\ [](\A t \in Threads :
          SetOfUnencodable(t)
          => /\ data = seq.data
             /\ pc[t] = "unlock" => res[t] = ErrBincode
             /\ hist[call[t].key].kind = "set"
                  => /\ call[t].key \in DOMAIN data
                     /\ data[call[t].key] = SerializeValue(hist[call[t].key].val).bytes)

\* A set of a value that does not encode returns the Bincode error; the key
\* keeps the value of the earlier set and the file is the snapshot of the
\* map.
C19_Witness ==
  \E t \in Threads :
    /\ Returning(t, "set")
    /\ res[t] = ErrBincode
    /\ hist[call[t].key].kind = "set"
    /\ call[t].key \in DOMAIN data
    /\ file = FileOf(SerializeDb(data))

\* What a get of k read as ty returns according to the calls made on the
\* Store alone: the last set or remove of k, or none since the new file.
ExpectedGet(k, ty) ==
  IF hist[k].kind = "set"
  THEN LET d == DeserializeValue(ty, SerializeValue(hist[k].val).bytes)
       IN IF d.ok THEN Ok(d.val) ELSE ErrBincode
  ELSE ErrKeyNotFound(k)

\* A step of a get call of thread t: its entry, its lock grant, its lookup
\* or its return.
GetStep(t) == pc'[t] # pc[t] /\ (call[t].op = "get" \/ call'[t].op = "get")

====
